---- MODULE Spec2Model ----
(***************************************************************************)
(* The daily Twitter analysis scripts: daily_journalists_twitter_analysis  *)
(* (thread-pool batches, top 3 tweets), daily_news_twitter_analysis        *)
(* (thread-pool batches, most viewed tweet, MongoDB) and                   *)
(* daily_twitter_analysis_cleaned (sequential loop, most viewed tweet,     *)
(* MongoDB).  A run of one script is the state machine: the module is      *)
(* loaded, handles are fetched page by page, each handle's tweets are      *)
(* classified and aggregated into a summary, summaries are collected,      *)
(* persisted and exported.                                                 *)
(*                                                                         *)
(* Strings that are searched are sequences of characters; a character is a *)
(* one-character string, a non-ASCII code point is written "U+XXXX".       *)
(***************************************************************************)
EXTENDS Integers, Sequences, FiniteSets, TLC

VARIABLES
    script,         \* which of the three scripts runs
    now,            \* the clock when the script is loaded, a UTC minute
    window,         \* <<[target_date, start_time, end_time]>> once computed
    pc,             \* position of the script's main thread
    handles,        \* the handle list the script iterates
    batch_size,     \* run_in_batches' batch_size
    timeline,       \* per handle: the tweets the account has posted
    i,              \* run_in_batches / for loop: index of the current group
    st,             \* per handle: position of its process_handle call
    tweets,         \* per handle: fetch_tweets' list
    fetch_failed,   \* per handle: fetch_tweets' except clause was entered
    result,         \* per handle: <<summary>> once process_handle returned
    all_summaries,  \* run_in_batches' all_summaries
    sleeps,         \* the number of time.sleep(90) calls made
    collection,     \* documents inserted into the MongoDB collection
    exported        \* <<rows>> once the DataFrame was written to Excel

vars == <<script, now, window, pc, handles, batch_size, timeline, i, st, tweets,
          fetch_failed, result, all_summaries, sleeps, collection, exported>>

Scripts == {"journalists", "news", "cleaned"}

(***************************************************************************)
(* Bounds of the model.                                                    *)
(***************************************************************************)
\* number of handles of a run (the scripts list 19, 15 and 5)
NumHandles == 3
\* batch_size of a run with several batches (the scripts use the default)
MaxBatchSize == 2
\* longest timeline whose tweets differ in their view counts
MaxTweets == 3
\* longest timeline whose tweets differ in text, creation time or entities
MaxTextTweets == 2

\* party_keywords of daily_journalists_twitter_analysis.py: the dict in its declared order,
\* each keyword a sequence of characters.
party_keywords ==
  << [party |-> "TDP",
      keywords |-> << <<"c","h","a","n","d","r","a","b","a","b","u","N","a","i","d","u">>, <<"n","c","b","n">>,
                     <<"t","d","p">>, <<"M","i","n","i","s","t","e","r","n","a","r","a","l","o","k","e","s","h">>,
                     <<"n","a","r","a","l","o","k","e","s","h">>,
                     <<"n","a","n","d","a","m","u","r","i","b","a","l","a","k","r","i","s","h","n","a">>,
                     <<"#","c","m","c","h","a","n","d","r","a","b","a","b","u">>, <<"#","t","d","p">>,
                     <<"#","n","a","r","a","l","o","k","e","s","h">>,
                     <<"N","a","r","a","c","h","a","n","d","r","a","b","a","b","u","n","a","i","d","u">>,
                     <<"V","a","n","g","a","l","a","p","u","d","i","a","n","i","t","h","a">>,
                     <<"@","a","n","i","t","h","a","_","T","D","P">>,
                     <<"U+0C1A","U+0C02","U+0C26","U+0C4D","U+0C30","U+0C2C","U+0C3E","U+0C2C","U+0C41">>,
                     <<"U+0C38","U+0C40","U+0C0E","U+0C02"," ","U+0C1A","U+0C02","U+0C26","U+0C4D","U+0C30","U+0C2C","U+0C3E","U+0C2C","U+0C41">>,
                     <<"U+0C28","U+0C3E","U+0C30","U+0C3E"," ","U+0C32","U+0C4B","U+0C15","U+0C47","U+0C37","U+0C4D">>,
                     <<"U+0C32","U+0C4B","U+0C15","U+0C47","U+0C37","U+0C4D">>,
                     <<"U+0C2C","U+0C3E","U+0C32","U+0C15","U+0C43","U+0C37","U+0C4D","U+0C23">>,
                     <<"U+0C1F","U+0C3F","U+0C21","U+0C3F","U+0C2A","U+0C3F">>,
                     <<"U+0C2E","U+0C02","U+0C24","U+0C4D","U+0C30","U+0C3F"," ","U+0C32","U+0C4B","U+0C15","U+0C47","U+0C37","U+0C4D">>,
                     <<"U+0C2E","U+0C02","U+0C24","U+0C4D","U+0C30","U+0C3F"," ","U+0C28","U+0C3E","U+0C30","U+0C3E"," ","U+0C32","U+0C4B","U+0C15","U+0C47","U+0C37","U+0C4D">>,
                     <<"U+0C32","U+0C4B","U+0C15","U+0C47","U+0C36","U+0C4D">> >>],
     [party |-> "YCP",
      keywords |-> << <<"j","a","g","a","n">>, <<"y","s","j","a","g","a","n">>,
                     <<"y","s","j","a","g","a","n","m","o","h","a","n","r","e","d","d","y">>, <<"y","s","r">>,
                     <<"y","s","r","c","p">>, <<"#","y","s","j","a","g","a","n">>, <<"#","y","c","p">>,
                     <<"#","y","s","r","c","p">>, <<"v","i","d","a","d","a","l","a","r","a","j","i","n","i">>,
                     <<"y","s","V","i","j","a","y","a","m","m","a">>,
                     <<"#","s","a","j","j","a","l","a","r","a","m","a","k","r","i","s","h","n","a","r","e","d","d","y">>,
                     <<"#","b","o","t","s","a","s","a","t","y","a","n","a","r","a","y","a","n","a">> >>],
     [party |-> "JSP",
      keywords |-> << <<"p","a","w","a","n","k","a","l","y","a","n">>, <<"j","a","n","a","s","e","n","a">>,
                     <<"D","e","p","u","t","y","C","M","P","a","w","a","n","K","a","l","y","a","n">> >>],
     [party |-> "BJP",
      keywords |-> << <<"b","j","p">>, <<"m","o","d","i">>, <<"a","m","i","t","s","h","a","h">>,
                     <<"n","a","r","e","n","d","r","a"," ","m","o","d","i">>, <<"#","b","j","p">>,
                     <<"p","m","m","o","d","i">> >>],
     [party |-> "INC",
      keywords |-> << <<"r","a","h","u","l"," ","g","a","n","d","h","i">>, <<"c","o","n","g","r","e","s","s">>,
                     <<"i","n","d","i","a","n"," ","n","a","t","i","o","n","a","l"," ","c","o","n","g","r","e","s","s">>,
                     <<"y","s","s","h","a","r","m","i","l","a">>, <<"i","n","c">> >>] >>

\* specific_keywords of daily_journalists_twitter_analysis.py.
specific_keywords_journalists ==
  << <<"c","m","c","h","a","n","d","r","a","b","a","b","u">>, <<"y","s","j","a","g","a","n">>,
     <<"p","a","w","a","n","k","a","l","y","a","n">>,
     <<"D","e","p","u","t","y","C","M","P","a","w","a","n","K","a","l","y","a","n">>, <<"t","d","p">>,
     <<"y","s","r","c","p">>, <<"n","a","r","a","l","o","k","e","s","h">>,
     <<"j","a","n","a","s","e","n","a">>, <<"p","i","t","h","a","p","u","r","a","m">>,
     <<"t","h","a","l","l","i","k","i","v","a","n","d","a","n","a","m">>,
     <<"r","a","p","p","a","r","a","p","p","a">>, <<"n","c","b","n">>,
     <<"c","h","a","n","d","r","a","b","a","b","u","N","a","i","d","u">>,
     <<"U+0C1A","U+0C02","U+0C26","U+0C4D","U+0C30","U+0C2C","U+0C3E","U+0C2C","U+0C41">>,
     <<"U+0C38","U+0C40","U+0C2E","U+0C4D"," ","U+0C1A","U+0C02","U+0C26","U+0C4D","U+0C30","U+0C2C","U+0C3E","U+0C2C","U+0C41">>,
     <<"U+0C28","U+0C3E","U+0C30","U+0C3E"," ","U+0C32","U+0C4B","U+0C15","U+0C47","U+0C37","U+0C4D">>,
     <<"U+0C32","U+0C4B","U+0C15","U+0C47","U+0C37","U+0C4D">> >>

\* govt_keywords of daily_journalists_twitter_analysis.py.
govt_keywords_journalists ==
  << <<"g","o","v","e","r","n","m","e","n","t">>, <<"g","o","v","t">>,
     <<"c","a","b","i","n","e","t">>, <<"m","i","n","i","s","t","e","r">>, <<"m","l","a">>,
     <<"m","p">>, <<"a","p","l","i","q","u","o","r","s","c","a","m","p","o","l","i","c","y">>,
     <<"s","c","h","e","m","e">>, <<"b","u","d","g","e","t">>, <<"o","f","f","i","c","i","a","l">>,
     <<"a","d","m","i","n","i","s","t","r","a","t","i","o","n">>,
     <<"#","a","p","l","i","q","u","o","r","s","c","a","m","U+0C06","U+0C26","U+0C47","U+0C36","U+0C3E","U+0C32","U+0C41">>,
     <<"U+0C2A","U+0C4D","U+0C30","U+0C2D","U+0C41","U+0C24","U+0C4D","U+0C35","U+0C02">>,
     <<"U+0C2E","U+0C02","U+0C24","U+0C4D","U+0C30","U+0C3F","U+0C35","U+0C30","U+0C4D","U+0C17","U+0C02">>,
     <<"U+0C24","U+0C40","U+0C30","U+0C4D","U+0C2E","U+0C3E","U+0C28","U+0C02">> >>

\* telangana_keywords of daily_journalists_twitter_analysis.py.
telangana_keywords_journalists ==
  << <<"h","y","d","e","r","a","b","a","d">>, <<"k","c","r">>, <<"k","t","r">>,
     <<"b",".","r",".","s">>, <<"b","r","s">>, <<"t","e","l","a","n","g","a","n","a">>,
     <<"U+0C24","U+0C46","U+0C32","U+0C02","U+0C17","U+0C3E","U+0C23">>,
     <<"U+0C15","U+0C47","U+0C38","U+0C40","U+0C06","U+0C30","U+0C4D">>,
     <<"U+0C15","U+0C47","U+0C1F","U+0C40","U+0C06","U+0C30","U+0C4D">>,
     <<"c","m","r","e","v","a","n","t","h","r","e","d","d","y">>, <<"I","N","C">> >>

\* leader_keywords of daily_news_twitter_analysis.py: the dict in its declared order,
\* each keyword a sequence of characters.
leader_keywords_news ==
  << [party |-> "tdp",
      keywords |-> << <<"c","h","a","n","d","r","a","b","a","b","u","N","a","i","d","u">>, <<"n","c","b","n">>,
                     <<"t","d","p">>, <<"l","o","k","e","s","h">>, <<"n","a","r","a","l","o","k","e","s","h">>,
                     <<"b","a","l","a","k","r","i","s","h","n","a">>,
                     <<"#","c","m","c","h","a","n","d","r","a","b","a","b","u">>, <<"#","t","d","p">>,
                     <<"#","n","a","r","a","l","o","k","e","s","h">>,
                     <<"N","a","r","a","c","h","a","n","d","r","a","b","a","b","u","n","a","i","d","u">>,
                     <<"V","a","n","g","a","l","a","p","u","d","i","a","n","i","t","h","a">>,
                     <<"@","a","n","i","t","h","a","_","T","D","P">>,
                     <<"U+0C1A","U+0C02","U+0C26","U+0C4D","U+0C30","U+0C2C","U+0C3E","U+0C2C","U+0C41">>,
                     <<"U+0C38","U+0C40","U+0C0E","U+0C02"," ","U+0C1A","U+0C02","U+0C26","U+0C4D","U+0C30","U+0C2C","U+0C3E","U+0C2C","U+0C41">>,
                     <<"U+0C28","U+0C3E","U+0C30","U+0C3E"," ","U+0C32","U+0C4B","U+0C15","U+0C47","U+0C37","U+0C4D">>,
                     <<"U+0C32","U+0C4B","U+0C15","U+0C47","U+0C37","U+0C4D">>,
                     <<"U+0C2C","U+0C3E","U+0C32","U+0C15","U+0C43","U+0C37","U+0C4D","U+0C23">>,
                     <<"U+0C1F","U+0C3F","U+0C21","U+0C3F","U+0C2A","U+0C3F">>,
                     <<"U+0C2E","U+0C02","U+0C24","U+0C4D","U+0C30","U+0C3F"," ","U+0C32","U+0C4B","U+0C15","U+0C47","U+0C37","U+0C4D">>,
                     <<"U+0C2E","U+0C02","U+0C24","U+0C4D","U+0C30","U+0C3F"," ","U+0C28","U+0C3E","U+0C30","U+0C3E"," ","U+0C32","U+0C4B","U+0C15","U+0C47","U+0C37","U+0C4D">>,
                     <<"U+0C32","U+0C4B","U+0C15","U+0C47","U+0C36","U+0C4D">> >>],
     [party |-> "ysrcp",
      keywords |-> << <<"j","a","g","a","n">>, <<"y","s","j","a","g","a","n">>, <<"y","s"," ","j","a","g","a","n">>,
                     <<"y","s","r">>, <<"y","s","r","c","p">>, <<"#","y","s","j","a","g","a","n">>,
                     <<"#","y","c","p">>, <<"#","y","s","r","c","p">>,
                     <<"v","i","d","a","d","a","l","a","r","a","j","i","n","i">> >>],
     [party |-> "jsp",
      keywords |-> << <<"P","a","w","a","n","k","a","l","y","a","n">>, <<"j","a","n","a","s","e","n","a">>,
                     <<"D","e","p","u","t","y","C","M","P","a","w","a","n","K","a","l","y","a","n">> >>],
     [party |-> "bjp",
      keywords |-> << <<"b","j","p">>, <<"m","o","d","i">>, <<"a","m","i","t"," ","s","h","a","h">>,
                     <<"n","a","r","e","n","d","r","a"," ","m","o","d","i">>, <<"#","b","j","p">>,
                     <<"p","m","m","o","d","i">> >>],
     [party |-> "inc",
      keywords |-> << <<"r","a","h","u","l"," ","g","a","n","d","h","i">>, <<"c","o","n","g","r","e","s","s">>,
                     <<"i","n","d","i","a","n"," ","n","a","t","i","o","n","a","l"," ","c","o","n","g","r","e","s","s">>,
                     <<"y","s","s","h","a","r","m","i","l","a">>, <<"i","n","c">> >>] >>

\* specific_keywords of daily_news_twitter_analysis.py.
specific_keywords_news ==
  << <<"c","m","c","h","a","n","d","r","a","b","a","b","u">>, <<"y","s","j","a","g","a","n">>,
     <<"p","a","w","a","n","k","a","l","y","a","n">>,
     <<"D","e","p","u","t","y","C","M","P","a","w","a","n","K","a","l","y","a","n">>, <<"t","d","p">>,
     <<"y","s","r","c","p">>, <<"n","a","r","a","l","o","k","e","s","h">>,
     <<"j","a","n","a","s","e","n","a">>, <<"p","i","t","h","a","p","u","r","a","m">>,
     <<"t","h","a","l","l","i","k","i","v","a","n","d","a","n","a","m">>,
     <<"r","a","p","p","a","r","a","p","p","a">>, <<"n","c","b","n">>,
     <<"c","h","a","n","d","r","a","b","a","b","u","N","a","i","d","u">>,
     <<"U+0C1A","U+0C02","U+0C26","U+0C4D","U+0C30","U+0C2C","U+0C3E","U+0C2C","U+0C41">>,
     <<"U+0C38","U+0C40","U+0C0E","U+0C02"," ","U+0C1A","U+0C02","U+0C26","U+0C4D","U+0C30","U+0C2C","U+0C3E","U+0C2C","U+0C41">>,
     <<"U+0C28","U+0C3E","U+0C30","U+0C3E"," ","U+0C32","U+0C4B","U+0C15","U+0C47","U+0C37","U+0C4D">>,
     <<"U+0C32","U+0C4B","U+0C15","U+0C47","U+0C37","U+0C4D">> >>

\* govt_keywords of daily_news_twitter_analysis.py.
govt_keywords_news ==
  << <<"a","p"," ","l","i","q","u","o","r"," ","s","c","a","m">>,
     <<"a","p","l","i","q","u","o","r","s","c","a","m">>,
     <<"#","a","p","l","i","q","u","o","r","s","c","a","m">>,
     <<"l","i","q","u","o","r"," ","c","a","s","e">>, <<"l","i","q","u","o","r"," ","s","c","a","m">>,
     <<"y","s","r","c","p"," ","l","i","q","u","o","r">>,
     <<"j","a","g","a","n"," ","l","i","q","u","o","r">>,
     <<"l","i","q","u","o","r"," ","m","a","f","i","a">>, <<"a","p"," ","l","i","q","u","o","r">>,
     <<"l","i","q","u","o","r"," ","i","r","r","e","g","u","l","a","r","i","t","i","e","s">>,
     <<"l","i","q","u","o","r"," ","t","e","n","d","e","r","s">> >>

\* telangana_keywords of daily_news_twitter_analysis.py.
telangana_keywords_news ==
  << <<"t","e","l","a","n","g","a","n","a">>, <<"k","c","r">>, <<"k","t","r">>, <<"b","r","s">>,
     <<"#","b","r","s">>, <<"b",".","r",".","s">>,
     <<"c","m","r","e","v","a","n","t","h","r","e","d","d","y">>,
     <<"r","e","v","a","n","t","h","r","e","d","d","y">> >>

\* leader_keywords of daily_twitter_analysis_cleaned.py: the dict in its declared order,
\* each keyword a sequence of characters.
leader_keywords_cleaned ==
  << [party |-> "tdp",
      keywords |-> << <<"c","h","a","n","d","r","a","b","a","b","u","N","a","i","d","u">>, <<"n","c","b","n">>,
                     <<"t","d","p">>, <<"l","o","k","e","s","h">>, <<"n","a","r","a","l","o","k","e","s","h">>,
                     <<"b","a","l","a","k","r","i","s","h","n","a">>,
                     <<"#","c","m","c","h","a","n","d","r","a","b","a","b","u">>, <<"#","t","d","p">>,
                     <<"#","n","a","r","a","l","o","k","e","s","h">> >>],
     [party |-> "ysrcp",
      keywords |-> << <<"j","a","g","a","n">>, <<"y","s","j","a","g","a","n">>, <<"y","s"," ","j","a","g","a","n">>,
                     <<"y","s","r">>, <<"y","s","r","c","p">>, <<"#","y","s","j","a","g","a","n">>,
                     <<"#","y","c","p">>, <<"#","y","s","r","c","p">> >>],
     [party |-> "jsp",
      keywords |-> << <<"p","a","w","a","n","k","a","l","y","a","n">>, <<"j","a","n","a","s","e","n","a">>,
                     <<"D","e","p","u","t","y","C","M","P","a","w","a","n","K","a","l","y","a","n">> >>],
     [party |-> "bjp",
      keywords |-> << <<"b","j","p">>, <<"m","o","d","i">>, <<"a","m","i","t"," ","s","h","a","h">>,
                     <<"n","a","r","e","n","d","r","a"," ","m","o","d","i">>, <<"#","b","j","p">> >>],
     [party |-> "inc",
      keywords |-> << <<"r","a","h","u","l"," ","g","a","n","d","h","i">>, <<"c","o","n","g","r","e","s","s">>,
                     <<"i","n","d","i","a","n"," ","n","a","t","i","o","n","a","l"," ","c","o","n","g","r","e","s","s">>,
                     <<"y","s","s","h","a","r","m","i","l","a">>, <<"i","n","c">> >>] >>

\* specific_keywords of daily_twitter_analysis_cleaned.py.
specific_keywords_cleaned ==
  << <<"c","m","c","h","a","n","d","r","a","b","a","b","u">>, <<"y","s","j","a","g","a","n">>,
     <<"p","a","w","a","n","k","a","l","y","a","n">>,
     <<"D","e","p","u","t","y","C","M","P","a","w","a","n","K","a","l","y","a","n">>, <<"t","d","p">>,
     <<"y","s","r","c","p">>, <<"n","a","r","a","l","o","k","e","s","h">>,
     <<"j","a","n","a","s","e","n","a">>, <<"p","i","t","h","a","p","u","r","a","m">>,
     <<"t","h","a","l","l","i","k","i","v","a","n","d","a","n","a","m">>,
     <<"r","a","p","p","a","r","a","p","p","a">>, <<"n","c","b","n">>,
     <<"c","h","a","n","d","r","a","b","a","b","u","N","a","i","d","u">> >>

\* govt_keywords of daily_twitter_analysis_cleaned.py.
govt_keywords_cleaned ==
  << <<"a","p"," ","l","i","q","u","o","r"," ","s","c","a","m">>,
     <<"a","p","l","i","q","u","o","r","s","c","a","m">>,
     <<"#","a","p","l","i","q","u","o","r","s","c","a","m">>,
     <<"l","i","q","u","o","r"," ","c","a","s","e">>, <<"l","i","q","u","o","r"," ","s","c","a","m">>,
     <<"y","s","r","c","p"," ","l","i","q","u","o","r">>,
     <<"j","a","g","a","n"," ","l","i","q","u","o","r">>,
     <<"l","i","q","u","o","r"," ","m","a","f","i","a">>, <<"a","p"," ","l","i","q","u","o","r">>,
     <<"l","i","q","u","o","r"," ","i","r","r","e","g","u","l","a","r","i","t","i","e","s">>,
     <<"l","i","q","u","o","r"," ","t","e","n","d","e","r","s">> >>

\* telangana_keywords of daily_twitter_analysis_cleaned.py.
telangana_keywords_cleaned ==
  << <<"t","e","l","a","n","g","a","n","a">>, <<"k","c","r">>, <<"k","t","r">>, <<"b","r","s">>,
     <<"#","b","r","s">>, <<"b",".","r",".","s">>,
     <<"c","m","r","e","v","a","n","t","h","r","e","d","d","y">>,
     <<"r","e","v","a","n","t","h","r","e","d","d","y">> >>

TxtSharmilaAP == <<"y","s"," ","s","h","a","r","m","i","l","a"," ","m","e","e","t","s"," ","a","p"," ","l","e","a","d","e","r","s">>
TxtSharmilaTelangana == <<"y","s"," ","s","h","a","r","m","i","l","a"," ","m","e","e","t","s"," ","t","e","l","a","n","g","a","n","a"," ","l","e","a","d","e","r","s">>
TxtCamelNaidu == <<"C","h","a","n","d","r","a","b","a","b","u","N","a","i","d","u"," ","w","i","n","s">>
TxtJaganTdp == <<"j","a","g","a","n"," ","s","l","a","m","s"," ","t","d","p">>
TxtCongress == <<"c","o","n","g","r","e","s","s"," ","r","a","l","l","y">>
TxtRain == <<"r","a","i","n"," ","t","o","d","a","y">>
TxtFullwidthTdp == <<"U+FF34","U+FF24","U+FF30"," ","r","a","l","l","y">>
TxtJaganSharmila == <<"j","a","g","a","n"," ","a","n","d"," ","s","h","a","r","m","i","l","a">>
TxtPawanJanasena == <<"D","e","p","u","t","y","C","M","P","a","w","a","n","K","a","l","y","a","n"," ","a","t"," ","j","a","n","a","s","e","n","a"," ","m","e","e","t">>

(***************************************************************************)
(* Strings.                                                                *)
(***************************************************************************)
UpperCase == <<"A","B","C","D","E","F","G","H","I","J","K","L","M",
               "N","O","P","Q","R","S","T","U","V","W","X","Y","Z",
               "U+FF24","U+FF30","U+FF34">>
LowerCase == <<"a","b","c","d","e","f","g","h","i","j","k","l","m",
               "n","o","p","q","r","s","t","u","v","w","x","y","z",
               "U+FF44","U+FF50","U+FF54">>

\* str.lower() on one character: the Latin capitals, ASCII and fullwidth.
LowerChar(c) ==
    IF \E k \in DOMAIN UpperCase : UpperCase[k] = c
    THEN LowerCase[CHOOSE k \in DOMAIN UpperCase : UpperCase[k] = c]
    ELSE c

\* str.lower()
lower(s) == [k \in 1..Len(s) |-> LowerChar(s[k])]

Compat == <<"U+FF24","U+FF30","U+FF34","U+FF44","U+FF50","U+FF54">>
CompatTo == <<"D","P","T","d","p","t">>

\* unicodedata.normalize("NFKC", s) on the characters of the model: a
\* fullwidth Latin letter becomes the ASCII letter, ASCII and the Telugu
\* code points of the keyword lists are unchanged.
NFKCChar(c) ==
    IF \E k \in DOMAIN Compat : Compat[k] = c
    THEN CompatTo[CHOOSE k \in DOMAIN Compat : Compat[k] = c]
    ELSE c

NFKC(s) == [k \in 1..Len(s) |-> NFKCChar(s[k])]

\* Python's `kw in text` on strings.
Contains(kw, text) ==
    \E k \in 0..(Len(text) - Len(kw)) : SubSeq(text, k + 1, k + Len(kw)) = kw

\* str.upper() of the keys of leader_keywords, and of party_keywords' keys.
upper(party) ==
    CASE party = "tdp" -> "TDP"
      [] party = "ysrcp" -> "YSRCP"
      [] party = "jsp" -> "JSP"
      [] party = "bjp" -> "BJP"
      [] party = "inc" -> "INC"
      [] OTHER -> party

(***************************************************************************)
(* The taxonomy each script declares.                                      *)
(***************************************************************************)
PartyKeywords(s) ==
    CASE s = "journalists" -> party_keywords
      [] s = "news" -> leader_keywords_news
      [] s = "cleaned" -> leader_keywords_cleaned

SpecificKeywords(s) ==
    CASE s = "journalists" -> specific_keywords_journalists
      [] s = "news" -> specific_keywords_news
      [] s = "cleaned" -> specific_keywords_cleaned

GovtKeywords(s) ==
    CASE s = "journalists" -> govt_keywords_journalists
      [] s = "news" -> govt_keywords_news
      [] s = "cleaned" -> govt_keywords_cleaned

TelanganaKeywords(s) ==
    CASE s = "journalists" -> telangana_keywords_journalists
      [] s = "news" -> telangana_keywords_news
      [] s = "cleaned" -> telangana_keywords_cleaned

\* time_slots (the same dict in the three scripts), in declared order.
time_slots ==
    << [slot |-> "12 AM-2:59 AM", s |-> 0, e |-> 3],
       [slot |-> "3 AM-5:59 AM", s |-> 3, e |-> 6],
       [slot |-> "6 AM-8:59 AM", s |-> 6, e |-> 9],
       [slot |-> "9 AM-11:59 AM", s |-> 9, e |-> 12],
       [slot |-> "12 PM-2:59 PM", s |-> 12, e |-> 15],
       [slot |-> "3 PM-5:59 PM", s |-> 15, e |-> 18],
       [slot |-> "6 PM-8:59 PM", s |-> 18, e |-> 21],
       [slot |-> "9 PM-11:59 PM", s |-> 21, e |-> 24] >>

SlotLabels == {time_slots[k].slot : k \in DOMAIN time_slots}

\* get_time_slot with `s < dt.hour < e`: a slot's first hour falls in no slot.
get_time_slot_exclusive(hour) ==
    IF \E k \in DOMAIN time_slots : time_slots[k].s < hour /\ hour < time_slots[k].e
    THEN time_slots[CHOOSE k \in DOMAIN time_slots :
                       time_slots[k].s < hour /\ hour < time_slots[k].e].slot
    ELSE "Unknown"

\* get_time_slot(dt): the first slot with s <= dt.hour < e, else "Unknown".
get_time_slot(hour) ==
    IF \E k \in DOMAIN time_slots : time_slots[k].s <= hour /\ hour < time_slots[k].e
    THEN time_slots[CHOOSE k \in DOMAIN time_slots :
                       /\ time_slots[k].s <= hour /\ hour < time_slots[k].e
                       /\ \A j \in 1..(k - 1) :
                             ~(time_slots[j].s <= hour /\ hour < time_slots[j].e)].slot
    ELSE "Unknown"

\* Asia/Kolkata is UTC+5:30: the offset in minutes.
IstOffsetMinutes == 330

\* t.created_at.astimezone(ist).hour.  An instant is a number of minutes
\* since 00:00 UTC of day 0, a date the number of a day.
LocalHour(minute) == ((minute + IstOffsetMinutes) % 1440) \div 60

\* dt.astimezone(ist).date(), and datetime.now(ist).date()
LocalDate(minute) == (minute + IstOffsetMinutes) \div 1440

\* The offset of a datetime.time(..., tzinfo=ist): a pytz zone handed to a
\* constructor, without localize(), stands for the first entry of its
\* table, for Asia/Kolkata the local mean time LMT+5:53.
TzinfoOffsetMinutes == 353

\* datetime.combine(date, time(hour, minute, tzinfo=ist)).astimezone(UTC)
CombineUTC(date, hour, minute) == date * 1440 + hour * 60 + minute - TzinfoOffsetMinutes

\* target_date, start_time and end_time as the module computes them at
\* clock; isoformat() names the same instant.  time(23, 59, 59) is the
\* minute 23:59: tweets are created on full minutes.
Window(clock) ==
    [target_date |-> LocalDate(clock),
     start_time |-> CombineUTC(LocalDate(clock), 0, 0),
     end_time |-> CombineUTC(LocalDate(clock), 23, 59)]

(***************************************************************************)
(* process_handle's loop body, one tweet at a time.                        *)
(*                                                                         *)
(* A tweet is [id, text, created_at, public_metrics, entities];            *)
(* created_at, public_metrics and entities are <<>> for None and <<v>> for *)
(* a value v; the metrics dict and the entities dict are functions from    *)
(* their keys.  An entities dict maps "hashtags" to the sequence of its    *)
(* tag["tag"] strings and "mentions" to the sequence of its                *)
(* mention["username"] strings.                                            *)
(***************************************************************************)
CountKeys == {"Total", "TDP_Related", "YCP_Related", "YSRCP_Related", "JSP_Related",
              "BJP_Related", "INC_Related", "Govt_Related"}

\* f"{party.upper()}_Related"
RelatedKey(party) ==
    CASE upper(party) = "TDP" -> "TDP_Related"
      [] upper(party) = "YCP" -> "YCP_Related"
      [] upper(party) = "YSRCP" -> "YSRCP_Related"
      [] upper(party) = "JSP" -> "JSP_Related"
      [] upper(party) = "BJP" -> "BJP_Related"
      [] upper(party) = "INC" -> "INC_Related"

\* counter[key] += 1
Incr(counter, key) == [counter EXCEPT ![key] = @ + 1]

\* text = unicodedata.normalize("NFKC", t.text.lower()); the cleaned script
\* only lower-cases.
Normalize(s, raw) == IF s = "cleaned" THEN lower(raw) ELSE NFKC(lower(raw))

\* The keyword as it is searched for: kw.lower(), and kw itself in the
\* cleaned script.
Needle(s, kw) == IF s = "cleaned" THEN kw ELSE lower(kw)

\* any(kw.lower() in text for kw in keywords)
AnyKeyword(s, keywords, text) ==
    \E k \in DOMAIN keywords : Contains(Needle(s, keywords[k]), text)

\* "sharmila" in text or "ys sharmila" in text, and no Telangana keyword.
SharmilaRule(s, text) ==
    /\ \/ Contains(<<"s","h","a","r","m","i","l","a">>, text)
       \/ Contains(<<"y","s"," ","s","h","a","r","m","i","l","a">>, text)
    /\ ~ \E k \in DOMAIN TelanganaKeywords(s) : Contains(TelanganaKeywords(s)[k], text)

\* PartyLoop without the `break`: after a keyword match the loop goes on to
\* the next party.
RECURSIVE PartyLoopNoBreak(_, _, _, _)
PartyLoopNoBreak(s, text, k, counts) ==
    IF k > Len(PartyKeywords(s)) THEN counts
    ELSE LET party == PartyKeywords(s)[k].party
             keywords == PartyKeywords(s)[k].keywords
         IN  IF party = "inc"
             THEN PartyLoopNoBreak(s, text, k + 1,
                                   IF SharmilaRule(s, text) THEN Incr(counts, "INC_Related")
                                   ELSE counts)
             ELSE PartyLoopNoBreak(s, text, k + 1,
                                   IF AnyKeyword(s, keywords, text)
                                   THEN Incr(counts, RelatedKey(party))
                                   ELSE counts)

\* for party, keywords in party_keywords.items(): ... from the k-th item on.
\* The branch of the literal "inc" ends in `continue`, a keyword match in
\* `break`.
RECURSIVE PartyLoop(_, _, _, _)
PartyLoop(s, text, k, counts) ==
    IF k > Len(PartyKeywords(s)) THEN counts
    ELSE LET party == PartyKeywords(s)[k].party
             keywords == PartyKeywords(s)[k].keywords
         IN  IF party = "inc"
             THEN PartyLoop(s, text, k + 1,
                            IF SharmilaRule(s, text) THEN Incr(counts, "INC_Related")
                            ELSE counts)
             ELSE IF AnyKeyword(s, keywords, text)
                  THEN Incr(counts, RelatedKey(party))
                  ELSE PartyLoop(s, text, k + 1, counts)

\* if any(gk in text for gk in govt_keywords): counts["Govt_Related"] += 1
GovtStep(s, text, counts) ==
    IF \E k \in DOMAIN GovtKeywords(s) : Contains(GovtKeywords(s)[k], text)
    THEN Incr(counts, "Govt_Related")
    ELSE counts

\* for kw in specific_keywords: if kw.lower() in text: keyword_counter[kw] += 1
KeywordStep(s, text, keyword_counter) ==
    [k \in DOMAIN keyword_counter |->
        IF Contains(Needle(s, SpecificKeywords(s)[k]), text)
        THEN keyword_counter[k] + 1
        ELSE keyword_counter[k]]

\* t.public_metrics.get("impression_count", 0)
ImpressionCount(metrics) ==
    IF "impression_count" \in DOMAIN metrics THEN metrics["impression_count"] ELSE 0

\* collections.Counter: the terms in the order of their first increment,
\* as the dict keeps them, each with its count.  counter[term] += 1
CounterIncr(counter, term) ==
    IF \E k \in DOMAIN counter : counter[k].term = term
    THEN [counter EXCEPT ![CHOOSE k \in DOMAIN counter : counter[k].term = term] =
                            [term |-> term, count |-> @.count + 1]]
    ELSE Append(counter, [term |-> term, count |-> 1])

\* for tag in t.entities["hashtags"]: counter["#" + tag["tag"].lower()] += 1
\* (and "@" + mention["username"].lower()), from the k-th entry on.
RECURSIVE EntityLoop(_, _, _, _)
EntityLoop(sigil, names, k, counter) ==
    IF k > Len(names) THEN counter
    ELSE EntityLoop(sigil, names, k + 1,
                    CounterIncr(counter, <<sigil>> \o lower(names[k])))

\* if t.entities and key in t.entities: for ... in t.entities[key]: ...
\* None and the empty dict are both false.
EntityStep(sigil, key, entities, counter) ==
    IF entities # <<>> /\ DOMAIN entities[1] # {} /\ key \in DOMAIN entities[1]
    THEN EntityLoop(sigil, entities[1][key], 1, counter)
    ELSE counter

\* The accumulators process_handle creates before the loop.
NewAcc(s) ==
    [raised |-> FALSE,
     counts |-> [key \in CountKeys |-> 0],
     time_slot_counter |-> [slot \in SlotLabels \cup {"Unknown"} |-> 0],
     hashtag_counter |-> <<>>,
     mention_counter |-> <<>>,
     keyword_counter |-> [k \in DOMAIN SpecificKeywords(s) |-> 0],
     all_tweet_views |-> <<>>,
     most_viewed |-> [views |-> 0, text |-> <<>>, url |-> <<>>]]

\* One iteration of `for t in tweets`.  t.created_at.astimezone and
\* t.public_metrics.get raise AttributeError on None.
TweetStep(s, handle, acc, t) ==
    IF t.created_at = <<>> \/ t.public_metrics = <<>>
    THEN [acc EXCEPT !.raised = TRUE]
    ELSE LET text == Normalize(s, t.text)
             slot == get_time_slot(LocalHour(t.created_at[1]))
             views == ImpressionCount(t.public_metrics[1])
             post == [views |-> views, text |-> t.text, url |-> <<handle, t.id>>]
         IN  [acc EXCEPT
                !.counts = GovtStep(s, text, PartyLoop(s, text, 1, Incr(@, "Total"))),
                !.time_slot_counter = Incr(@, slot),
                !.hashtag_counter = EntityStep("#", "hashtags", t.entities, @),
                !.mention_counter = IF s = "journalists"
                                    THEN EntityStep("@", "mentions", t.entities, @)
                                    ELSE @,
                !.keyword_counter = KeywordStep(s, text, @),
                !.all_tweet_views = IF s = "journalists" THEN Append(@, post) ELSE @,
                !.most_viewed = IF s # "journalists" /\ views > @.views THEN post ELSE @]

\* for t in tweets: ... from the k-th tweet on; the loop ends when a tweet
\* raises.
RECURSIVE TweetLoop(_, _, _, _, _)
TweetLoop(s, handle, ts, k, acc) ==
    IF k > Len(ts) \/ acc.raised THEN acc
    ELSE TweetLoop(s, handle, ts, k + 1, TweetStep(s, handle, acc, ts[k]))

(***************************************************************************)
(* The summary process_handle builds after the loop.                       *)
(***************************************************************************)
\* A spreadsheet cell holding the integer n, and one holding "".
IntCell(n) == [kind |-> "int", val |-> n]
EmptyCell == [kind |-> "str", val |-> <<>>]

\* sorted(all_tweet_views, key=lambda x: x["views"], reverse=True): Python's
\* sort is stable, also under reverse=True, so a post goes behind every post
\* of at least its views that came before it.
RECURSIVE SortedByViews(_)
SortedByViews(posts) ==
    IF posts = <<>> THEN <<>>
    ELSE LET n == Len(posts)
             x == posts[n]
             head == SortedByViews(SubSeq(posts, 1, n - 1))
             pos == Cardinality({k \in DOMAIN head : head[k].views >= x.views})
         IN  SubSeq(head, 1, pos) \o <<x>> \o SubSeq(head, pos + 1, Len(head))

\* The journalists script keeps three posts ([:3], range(3)).
TopK == 3

\* TopSlots without the else branch of the journalists script's range(3)
\* loop: only the slots top3 reaches are written.
TopSlotsUnpadded(s, acc) ==
    IF s = "journalists"
    THEN LET sorted == SortedByViews(acc.all_tweet_views)
             top3 == SubSeq(sorted, 1, IF Len(sorted) < TopK THEN Len(sorted) ELSE TopK)
         IN  [k \in 1..Len(top3) |->
                [views |-> IntCell(top3[k].views), url |-> top3[k].url,
                 text |-> top3[k].text]]
    ELSE << [views |-> IntCell(acc.most_viewed.views), url |-> acc.most_viewed.url,
             text |-> acc.most_viewed.text] >>

\* The "Top i Tweet Views/URL/Text" columns: the journalists script fills
\* range(3) from top3 and writes "" into the slots top3 does not reach;
\* the news scripts write most_viewed.
TopSlots(s, acc) ==
    IF s = "journalists"
    THEN LET sorted == SortedByViews(acc.all_tweet_views)
             top3 == SubSeq(sorted, 1, IF Len(sorted) < TopK THEN Len(sorted) ELSE TopK)
         IN  [k \in 1..TopK |->
                IF k - 1 < Len(top3)
                THEN [views |-> IntCell(top3[k].views), url |-> top3[k].url,
                      text |-> top3[k].text]
                ELSE [views |-> EmptyCell, url |-> <<>>, text |-> <<>>]]
    ELSE << [views |-> IntCell(acc.most_viewed.views), url |-> acc.most_viewed.url,
             text |-> acc.most_viewed.text] >>

\* "Top 50 Hashtags" and "Top 50 Mentions": most_common(50).
TopN == 50

\* The place of the k-th item in sorted(counter.items(), key=itemgetter(1),
\* reverse=True): the sort is stable, so the item stands behind the items of
\* a greater count and behind those of its own count inserted before it.
SortedPlace(counter, k) ==
    1 + Cardinality({j \in DOMAIN counter :
                        \/ counter[j].count > counter[k].count
                        \/ counter[j].count = counter[k].count /\ j < k})

\* most_common that keeps the counter's insertion order: the first n terms
\* seen, not the n most frequent.
most_common_unsorted(counter, n) ==
    SubSeq(counter, 1, IF Len(counter) < n THEN Len(counter) ELSE n)

\* Counter.most_common(n): heapq.nlargest(n, items, key=count), which is
\* sorted(items, key=count, reverse=True)[:n].
most_common(counter, n) ==
    [r \in 1..(IF Len(counter) < n THEN Len(counter) ELSE n) |->
        counter[CHOOSE k \in DOMAIN counter : SortedPlace(counter, k) = r]]

Digits == <<"0","1","2","3","4","5","6","7","8","9">>

\* str(c) of a count
RECURSIVE Str(_)
Str(c) ==
    IF c < 10 THEN <<Digits[c + 1]>>
    ELSE Str(c \div 10) \o <<Digits[(c % 10) + 1]>>

\* "; ".join(f"{ht}:{c}" for ht, c in pairs), from the k-th pair on.
RECURSIVE JoinPairs(_, _)
JoinPairs(pairs, k) ==
    IF k > Len(pairs) THEN <<>>
    ELSE (IF k > 1 THEN <<";", " ">> ELSE <<>>)
         \o pairs[k].term \o <<":">> \o Str(pairs[k].count)
         \o JoinPairs(pairs, k + 1)

\* summary = {...}: counts[...] reads a defaultdict, so a key never
\* incremented reads 0.  Date is str(target_date), the date by its number.
\* Top_50_Mentions is <<cell>>, and <<>> in the news
\* scripts, whose summary has no such column.
Summary(s, handle, acc) ==
    [Handle |-> handle,
     Date |-> window[1].target_date,
     Total_Tweets |-> acc.counts["Total"],
     TDP_Tweets |-> acc.counts["TDP_Related"],
     YSRCP_Tweets |-> acc.counts["YSRCP_Related"],
     JSP_Tweets |-> acc.counts["JSP_Related"],
     BJP_Tweets |-> acc.counts["BJP_Related"],
     INC_Tweets |-> acc.counts["INC_Related"],
     Govt_Related_Tweets |-> acc.counts["Govt_Related"],
     slots |-> [slot \in SlotLabels |-> acc.time_slot_counter[slot]],
     Top_50_Hashtags |-> JoinPairs(most_common(acc.hashtag_counter, TopN), 1),
     Top_50_Mentions |-> IF s = "journalists"
                         THEN <<JoinPairs(most_common(acc.mention_counter, TopN), 1)>>
                         ELSE <<>>,
     top |-> TopSlots(s, acc),
     mentions |-> acc.keyword_counter]

(***************************************************************************)
(* The tweets a run can meet.                                              *)
(***************************************************************************)
\* "liquor scam govt": a government topic and no party.
TxtLiquorGovt ==
    <<"l","i","q","u","o","r"," ","s","c","a","m"," ","g","o","v","t">>

\* "jagan liquor scam govt": a government topic and a party.
TxtJaganLiquor ==
    <<"j","a","g","a","n"," ","l","i","q","u","o","r"," ","s","c","a","m"," ","g","o","v","t">>

TextPool == {TxtSharmilaAP, TxtSharmilaTelangana, TxtCamelNaidu, TxtJaganTdp, TxtCongress,
             TxtRain, TxtFullwidthTdp, TxtJaganSharmila, TxtPawanJanasena,
             TxtLiquorGovt, TxtJaganLiquor}

\* 03:00 UTC of day 0 (08:30 IST), 5 impressions.
BaseTweet ==
    [text |-> TxtRain, created_at |-> <<180>>,
     public_metrics |-> <<[impression_count |-> 5]>>, entities |-> <<>>]

TextSlice == {[BaseTweet EXCEPT !.text = x] : x \in TextPool}

\* no created_at; on the day before day 0, 18:10 UTC (23:40 IST) and
\* 18:30 UTC (00:00 IST of day 0); on day 0, 03:30 UTC (09:00 IST),
\* 12:00 UTC (17:30 IST), 18:10 UTC (23:40 IST) and 18:30 UTC (00:00 IST of
\* day 1).
TimeSlice ==
    {[BaseTweet EXCEPT !.created_at = c] :
        c \in {<<>>, <<-350>>, <<-330>>, <<210>>, <<720>>, <<1090>>, <<1110>>}}

\* no public_metrics; metrics without impression_count; 0, 5, 10 impressions.
ViewSlice ==
    {[BaseTweet EXCEPT !.public_metrics = m] :
        m \in {<<>>, <<[like_count |-> 1]>>, <<[impression_count |-> 0]>>,
               <<[impression_count |-> 5]>>, <<[impression_count |-> 10]>>}}

\* "#tdp wins": a hashtag in the text of a tweet without entities.
TxtHashTdp == <<"#","t","d","p"," ","w","i","n","s">>

TagTdp == <<"t","d","p">>
TagTDP == <<"T","D","P">>
TagAp == <<"a","p">>
TagJsp == <<"j","s","p">>
NameNcbn == <<"n","c","b","n">>
NameJagan == <<"Y","S","J","a","g","a","n">>

\* "t01", "t02", ...
Tag(k) == <<"t", Digits[(k \div 10) + 1], Digits[(k % 10) + 1]>>

\* The tags lo..hi.
Tags(lo, hi) == [k \in 1..(hi - lo + 1) |-> Tag(lo + k - 1)]

\* Two posts that carry one tag more than the summary's column holds
\* between them, the tag in the middle in both.
ManyTags == Tags(1, (TopN + 2) \div 2)
MoreTags == Tags((TopN + 2) \div 2, TopN + 1)

\* no entities but a hashtag in the text; entities without hashtags and
\* mentions; a capitalised tag; tags and a mention; a tag twice in a tweet;
\* mentions only; the first and the second half of TopN + 1 tags.
EntitySlice ==
    {[BaseTweet EXCEPT !.text = TxtHashTdp]} \cup
    {[BaseTweet EXCEPT !.entities = <<e>>] :
        e \in {[urls |-> <<>>],
               [hashtags |-> <<TagTDP>>],
               [hashtags |-> <<TagTdp, TagAp>>, mentions |-> <<NameNcbn>>],
               [hashtags |-> <<TagAp, TagJsp, TagAp>>],
               [mentions |-> <<NameJagan, NameNcbn>>],
               [hashtags |-> ManyTags],
               [hashtags |-> MoreTags]}}

SeqsUpTo(S, n) == UNION {[1..k -> S] : k \in 0..n}

\* A timeline gives its tweets their ids.
WithIds(bodies) ==
    [k \in DOMAIN bodies |->
        [id |-> k, text |-> bodies[k].text, created_at |-> bodies[k].created_at,
         public_metrics |-> bodies[k].public_metrics, entities |-> bodies[k].entities]]

PostTimelines ==
    {WithIds(b) : b \in SeqsUpTo(TextSlice, MaxTextTweets) \cup SeqsUpTo(TimeSlice, MaxTextTweets)
                          \cup SeqsUpTo(ViewSlice, MaxTweets)
                          \cup SeqsUpTo(EntitySlice, MaxTextTweets)}

BatchTimelines ==
    {WithIds(b) : b \in {<<>>, <<BaseTweet>>,
                         <<[BaseTweet EXCEPT !.created_at = <<>>]>>,
                         <<[BaseTweet EXCEPT !.text = TxtJaganTdp], BaseTweet>>}}

(***************************************************************************)
(* The run.                                                                *)
(***************************************************************************)
\* The clocks a run is started at: 10:00 UTC of day 0 (15:30 IST), and
\* 20:00 UTC of day 0 (01:30 IST of day 1).
Afternoon == 600
AfterMidnight == 1200

Start(n) ==
    /\ pc = "load"
    /\ window = <<>>
    /\ handles = [k \in 1..n |-> k]
    /\ i = 0
    /\ st = [h \in 1..n |-> "idle"]
    /\ tweets = [h \in 1..n |-> <<>>]
    /\ fetch_failed = [h \in 1..n |-> FALSE]
    /\ result = [h \in 1..n |-> <<>>]
    /\ all_summaries = <<>>
    /\ sleeps = 0
    /\ collection = <<>>
    /\ exported = <<>>

\* A run over NumHandles handles in batches of MaxBatchSize.
Init ==
    /\ script \in Scripts
    /\ now \in {Afternoon, AfterMidnight}
    /\ batch_size = MaxBatchSize
    /\ timeline \in [1..NumHandles -> BatchTimelines]
    /\ Start(NumHandles)

\* The timelines of a run followed for its scheduling only: one post that is
\* processed, or one post whose processing raises.
ScheduleTimelines ==
    {WithIds(b) : b \in {<<BaseTweet>>, <<[BaseTweet EXCEPT !.created_at = <<>>]>>}}

\* A run of run_in_batches over NumHandles handles, started in the afternoon.
InitBatches ==
    /\ script \in Scripts
    /\ now = Afternoon
    /\ batch_size = MaxBatchSize
    /\ timeline \in [1..NumHandles -> ScheduleTimelines]
    /\ Start(NumHandles)

\* A run over two handles, one at a time, the first with any timeline of
\* PostTimelines.
InitPosts ==
    /\ script \in Scripts
    /\ now = Afternoon
    /\ batch_size = 1
    /\ timeline \in {[h \in 1..2 |-> IF h = 1 THEN tl ELSE <<>>] : tl \in PostTimelines}
    /\ Start(2)

Handles == DOMAIN handles

\* handles[i:i + batch_size], as the set of its positions
Batch == {h \in Handles : i < h /\ h <= i + batch_size}

\* The module's top-level code up to the main block: target_date,
\* start_time and end_time are computed.  The news script does
\* `from datetime import datetime` and then evaluates datetime.datetime.now:
\* AttributeError, before target_date is bound and before any function of
\* the script is defined.
LoadModule ==
    /\ pc = "load"
    /\ pc' = IF script = "news" THEN "crashed" ELSE "loop"
    /\ window' = IF script = "news" THEN window ELSE <<Window(now)>>
    /\ UNCHANGED <<script, now, handles, batch_size, timeline, i, st, tweets, fetch_failed,
                   result, all_summaries, sleeps, collection, exported>>

\* run_in_batches: a group's process_handle calls are submitted to the pool.
StartBatch ==
    /\ pc = "loop"
    /\ script # "cleaned"
    /\ pc' = "batch"
    /\ st' = [h \in Handles |-> IF h \in Batch THEN "lookup" ELSE st[h]]
    /\ UNCHANGED <<script, now, window, handles, batch_size, timeline, i, tweets, fetch_failed,
                   result, all_summaries, sleeps, collection, exported>>

\* The cleaned script: `for handle in news_handles` takes the next handle.
NextHandle ==
    /\ pc = "loop"
    /\ script = "cleaned"
    /\ pc' = "batch"
    /\ st' = [st EXCEPT ![i + 1] = "lookup"]
    /\ UNCHANGED <<script, now, window, handles, batch_size, timeline, i, tweets, fetch_failed,
                   result, all_summaries, sleeps, collection, exported>>

\* fetch_tweets: client.get_user.  It returns a user, returns no data
\* (`return []`) or raises, which the except clause turns into
\* `return tweets`.
GetUser(h) ==
    /\ pc = "batch"
    /\ st[h] = "lookup"
    /\ \E outcome \in {"user", "no_data", "error"} :
          /\ st' = [st EXCEPT ![h] = IF outcome = "user" THEN "paging" ELSE "fetched"]
          /\ fetch_failed' = [fetch_failed EXCEPT ![h] = (outcome = "error")]
    /\ UNCHANGED <<script, now, window, pc, handles, batch_size, timeline, i, tweets,
                   result, all_summaries, sleeps, collection, exported>>

\* get_users_tweets(start_time=start_time, end_time=end_time): the API
\* serves the tweets of the timeline created from start_time to end_time.
InWindow(t) ==
    \/ t.created_at = <<>>
    \/ window[1].start_time <= t.created_at[1] /\ t.created_at[1] <= window[1].end_time

Served(h) == SelectSeq(timeline[h], InWindow)

\* fetch_tweets: one request of the paginator.  It raises (the except clause
\* returns the tweets of the pages before), or it returns the next n tweets
\* the API serves; the page that reaches their end is the last.
FetchPage(h) ==
    /\ pc = "batch"
    /\ st[h] = "paging"
    /\ LET rest == Len(Served(h)) - Len(tweets[h])
       IN  \E n \in 0..rest, error \in BOOLEAN :
              /\ error => n = 0
              /\ ~error /\ rest > 0 => n > 0
              /\ tweets' = [tweets EXCEPT ![h] =
                              @ \o SubSeq(Served(h), Len(@) + 1, Len(@) + n)]
              /\ st' = [st EXCEPT ![h] = IF error \/ n = rest THEN "fetched" ELSE "paging"]
              /\ fetch_failed' = [fetch_failed EXCEPT ![h] = error]
    /\ UNCHANGED <<script, now, window, pc, handles, batch_size, timeline, i,
                   result, all_summaries, sleeps, collection, exported>>

\* process_handle after fetch_tweets returned: the loop over the tweets, the
\* summary, and in the news scripts collection.insert_one, which can raise.
\* An exception leaves process_handle; in the cleaned script, whose loop has
\* no try, it ends the script.
ProcessTweets(h) ==
    /\ pc = "batch"
    /\ st[h] = "fetched"
    /\ \E acc \in {TweetLoop(script, handles[h], tweets[h], 1, NewAcc(script))},
          insert_ok \in (IF script = "journalists" THEN {TRUE} ELSE BOOLEAN) :
           LET summary == Summary(script, handles[h], acc)
           IN IF acc.raised \/ ~insert_ok
              THEN /\ st' = [st EXCEPT ![h] = "raised"]
                   /\ pc' = IF script = "cleaned" THEN "crashed" ELSE pc
                   /\ UNCHANGED <<i, result, collection>>
              ELSE /\ result' = [result EXCEPT ![h] = <<summary>>]
                   /\ collection' = IF script = "journalists" THEN collection
                                    ELSE Append(collection, summary)
                   /\ st' = [st EXCEPT ![h] = IF script = "cleaned" THEN "collected"
                                              ELSE "returned"]
                   /\ i' = IF script = "cleaned" THEN i + 1 ELSE i
                   /\ pc' = IF script # "cleaned" THEN pc
                            ELSE IF i + 1 < Len(handles) THEN "loop" ELSE "done"
    /\ UNCHANGED <<script, now, window, handles, batch_size, timeline, tweets, fetch_failed,
                   all_summaries, sleeps, exported>>

\* run_in_batches: as_completed yields a finished future; its result is
\* appended ("collected"), its exception printed ("reported").
Collect(h) ==
    /\ pc = "batch"
    /\ script # "cleaned"
    /\ st[h] \in {"returned", "raised"}
    /\ all_summaries' = IF st[h] = "returned" /\ result[h] # <<>>
                        THEN Append(all_summaries, result[h][1])
                        ELSE all_summaries
    /\ st' = [st EXCEPT ![h] = IF st[h] = "returned" THEN "collected" ELSE "reported"]
    /\ UNCHANGED <<script, now, window, pc, handles, batch_size, timeline, i, tweets, fetch_failed,
                   result, sleeps, collection, exported>>

\* EndBatch without the executor's wait for its futures: the loop goes on
\* while pipelines of the group are running.
EndBatchNoJoin ==
    /\ pc = "batch"
    /\ script # "cleaned"
    /\ pc' = IF i + batch_size < Len(handles) THEN "sleep" ELSE "export"
    /\ UNCHANGED <<script, now, window, handles, batch_size, timeline, i, st, tweets, fetch_failed,
                   result, all_summaries, sleeps, collection, exported>>

\* run_in_batches: the with block ends once every future was yielded; the
\* loop sleeps if a group is left and returns otherwise.
EndBatch ==
    /\ pc = "batch"
    /\ script # "cleaned"
    /\ \A h \in Batch : st[h] \in {"collected", "reported"}
    /\ pc' = IF i + batch_size < Len(handles) THEN "sleep" ELSE "export"
    /\ UNCHANGED <<script, now, window, handles, batch_size, timeline, i, st, tweets, fetch_failed,
                   result, all_summaries, sleeps, collection, exported>>

\* run_in_batches: time.sleep(90) returns and the loop takes the next group.
Sleep ==
    /\ pc = "sleep"
    /\ pc' = "loop"
    /\ i' = i + batch_size
    /\ sleeps' = sleeps + 1
    /\ UNCHANGED <<script, now, window, handles, batch_size, timeline, st, tweets, fetch_failed,
                   result, all_summaries, collection, exported>>

\* The main block: pd.DataFrame(run_in_batches(...)).to_excel(...).
Export ==
    /\ pc = "export"
    /\ exported' = <<all_summaries>>
    /\ pc' = "done"
    /\ UNCHANGED <<script, now, window, handles, batch_size, timeline, i, st, tweets, fetch_failed,
                   result, all_summaries, sleeps, collection>>

Next ==
    \/ LoadModule
    \/ StartBatch
    \/ NextHandle
    \/ \E h \in Handles : GetUser(h)
    \/ \E h \in Handles : FetchPage(h)
    \/ \E h \in Handles : ProcessTweets(h)
    \/ \E h \in Handles : Collect(h)
    \/ EndBatch
    \/ Sleep
    \/ Export

Spec == Init /\ [][Next]_vars

SpecPosts == InitPosts /\ [][Next]_vars

SpecBatches == InitBatches /\ [][Next]_vars

(***************************************************************************)
(* What the claims speak about.                                            *)
(***************************************************************************)
Range(f) == {f[k] : k \in DOMAIN f}

\* The summaries a run has returned, collected, persisted or exported.
Emitted ==
    {result[h][1] : h \in {x \in Handles : result[x] # <<>>}}
        \cup Range(all_summaries) \cup Range(collection)
        \cup (IF exported = <<>> THEN {} ELSE Range(exported[1]))

\* The posts a summary was built from.
PostsOf(sm) == tweets[sm.Handle]

RECURSIVE SlotSum(_, _)
SlotSum(sm, k) ==
    IF k = 0 THEN 0 ELSE sm.slots[time_slots[k].slot] + SlotSum(sm, k - 1)

\* C1: in every summary, the counts of the time slots declared in time_slots
\* add up to the summary's total tweet count.
C1_BucketCountsSumToTotal ==
    \A sm \in Emitted : SlotSum(sm, Len(time_slots)) = sm.Total_Tweets

\* Two tweets of one account counted in two different time slots.
C1_Witness ==
    \E sm \in Emitted :
        /\ sm.Total_Tweets = 2
        /\ \E a, b \in SlotLabels : a # b /\ sm.slots[a] = 1 /\ sm.slots[b] = 1

\* The counters the party loop increments for one post.
Recorded(s, raw) ==
    LET counts == PartyLoop(s, Normalize(s, raw), 1, [key \in CountKeys |-> 0])
    IN  {key \in CountKeys : counts[key] > 0}

\* The report column of a declared category.
Column(sm, party) ==
    CASE upper(party) = "TDP" -> sm.TDP_Tweets
      [] upper(party) \in {"YCP", "YSRCP"} -> sm.YSRCP_Tweets
      [] upper(party) = "JSP" -> sm.JSP_Tweets
      [] upper(party) = "BJP" -> sm.BJP_Tweets
      [] upper(party) = "INC" -> sm.INC_Tweets

\* C2: the count a summary reports for a declared category is the number of
\* the account's posts the party loop matched to that category.
C2_CategoryCountIsTally ==
    \A sm \in Emitted : \A k \in DOMAIN PartyKeywords(script) :
        LET party == PartyKeywords(script)[k].party
        IN  Column(sm, party) =
                Cardinality({j \in DOMAIN PostsOf(sm) :
                                RelatedKey(party) \in Recorded(script, PostsOf(sm)[j].text)})

\* A category matches a post when one of its keywords, lower-cased, is a
\* substring of the script's normalized text.
CategoryMatches(s, k, raw) ==
    \E n \in DOMAIN PartyKeywords(s)[k].keywords :
        Contains(lower(PartyKeywords(s)[k].keywords[n]), Normalize(s, raw))

\* The categories the party loop matches by their keywords: all but the one
\* the loop handles by the Sharmila rule.
KeywordCategories(s) == {k \in DOMAIN PartyKeywords(s) : PartyKeywords(s)[k].party # "inc"}

\* The handles whose process_handle call raised, and those whose call ended.
Raised == {h \in Handles : st[h] \in {"raised", "reported"}}
Processed == Raised \cup {h \in Handles : st[h] \in {"returned", "collected"}}

\* C3: when a keyword-matched category matches a post (one of its keywords
\* is a case-insensitive substring of the normalized text), the first such
\* category in declared order is the one category recorded for the post;
\* when none matches, none of them is recorded.
C3_FirstMatchWins ==
    \A sm \in Emitted : \A j \in DOMAIN PostsOf(sm) :
        LET raw == PostsOf(sm)[j].text
            matching == {k \in KeywordCategories(script) : CategoryMatches(script, k, raw)}
            first == {k \in matching : \A m \in matching : k <= m}
            keys == {RelatedKey(PartyKeywords(script)[k].party) : k \in KeywordCategories(script)}
        IN  IF first = {}
            THEN Recorded(script, raw) \cap keys = {}
            ELSE Recorded(script, raw) =
                    {RelatedKey(PartyKeywords(script)[k].party) : k \in first}

\* The gating keyword and the exclusion list of the INC rule.
Gated(s, raw) == Contains(<<"s","h","a","r","m","i","l","a">>, Normalize(s, raw))
Excluded(s, raw) ==
    \E k \in DOMAIN TelanganaKeywords(s) :
        Contains(lower(TelanganaKeywords(s)[k]), Normalize(s, raw))

\* C4: a post with the gating keyword and no exclusion keyword, which no
\* other party's keywords match, is counted for INC; a post with the gating
\* keyword and an exclusion keyword is not.
C4_ExclusionGatedINC ==
    \A sm \in Emitted :
        LET must == {j \in DOMAIN PostsOf(sm) :
                        /\ Gated(script, PostsOf(sm)[j].text)
                        /\ ~Excluded(script, PostsOf(sm)[j].text)
                        /\ Recorded(script, PostsOf(sm)[j].text) \subseteq {"INC_Related"}}
            never == {j \in DOMAIN PostsOf(sm) :
                        Gated(script, PostsOf(sm)[j].text)
                            /\ Excluded(script, PostsOf(sm)[j].text)}
        IN  /\ Cardinality(must) <= sm.INC_Tweets
            /\ sm.INC_Tweets <= Len(PostsOf(sm)) - Cardinality(never)

\* C5: a tracked keyword's count is the number of posts whose normalized text
\* contains the keyword, compared case-insensitively.
C5_TrackedKeywordCounts ==
    \A sm \in Emitted : \A k \in DOMAIN SpecificKeywords(script) :
        sm.mentions[k] =
            Cardinality({j \in DOMAIN PostsOf(sm) :
                            Contains(lower(SpecificKeywords(script)[k]),
                                     Normalize(script, PostsOf(sm)[j].text))})

\* The post of rank r: r - 1 posts have more views, or as many and come
\* earlier in the fetched order.
Ranked(posts, r) ==
    CHOOSE j \in DOMAIN posts :
        Cardinality({m \in DOMAIN posts :
            \/ ImpressionCount(posts[m].public_metrics[1])
                  > ImpressionCount(posts[j].public_metrics[1])
            \/ /\ ImpressionCount(posts[m].public_metrics[1])
                    = ImpressionCount(posts[j].public_metrics[1])
               /\ m < j}) = r - 1

\* The top slot that shows post j of the handle.
SlotOf(handle, post) ==
    [views |-> IntCell(ImpressionCount(post.public_metrics[1])),
     url |-> <<handle, post.id>>, text |-> post.text]

\* C6: the first min(K, n) top slots hold the account's posts by views,
\* descending, posts of equal views in fetched order.
C6_TopPostsByViews ==
    \A sm \in Emitted :
        \A r \in 1..Len(sm.top) :
            r <= Len(PostsOf(sm)) =>
                sm.top[r] = SlotOf(sm.Handle, PostsOf(sm)[Ranked(PostsOf(sm), r)])

\* The number of top slots of a script's summary.
K(s) == IF s = "journalists" THEN TopK ELSE 1

\* C7 as stated: K slots, and every slot beyond the posts holds 0 views, an
\* empty url and an empty text.
C7_PaddingZeroViews ==
    \A sm \in Emitted :
        /\ Len(sm.top) = K(script)
        /\ \A r \in (Len(PostsOf(sm)) + 1)..K(script) :
              /\ sm.top[r].views.kind = "int" /\ sm.top[r].views.val = 0
              /\ sm.top[r].url = <<>>
              /\ sm.top[r].text = <<>>

\* C7, amended: K slots, and every slot beyond the posts holds an empty url,
\* an empty text and as views "" in the journalists script, 0 in the others.
C7_Padding ==
    \A sm \in Emitted :
        /\ Len(sm.top) = K(script)
        /\ \A r \in (Len(PostsOf(sm)) + 1)..K(script) :
              /\ IF script = "journalists"
                 THEN sm.top[r].views.kind = "str" /\ sm.top[r].views.val = <<>>
                 ELSE sm.top[r].views.kind = "int" /\ sm.top[r].views.val = 0
              /\ sm.top[r].url = <<>>
              /\ sm.top[r].text = <<>>

\* A journalists summary of one post, its second and third slot padded.
C7_Witness ==
    \E sm \in Emitted :
        /\ script = "journalists"
        /\ Len(PostsOf(sm)) = 1
        /\ sm.top[1].views.kind = "int"
        /\ sm.top[3].views.kind = "str"

\* C8: no summary is emitted for an account whose fetch raised.
C8_FailedAccountAbsent ==
    \A sm \in Emitted : ~fetch_failed[sm.Handle]

\* C9: when an account's pipeline raises the run goes on, and the result
\* of a finished run holds the summary of exactly the accounts whose pipeline
\* did not raise.
C9_FailureIsolation ==
    /\ Raised # {} => pc # "crashed"
    /\ pc = "done" =>
          \A h \in Handles :
              (\E sm \in Emitted : sm.Handle = handles[h]) <=> h \notin Raised

\* A post without created_at or without public_metrics.
Malformed(t) == t.created_at = <<>> \/ t.public_metrics = <<>>

\* C10: an account with a malformed post still gets its summary, built from
\* its other posts, and its pipeline does not raise.
C10_MalformedPostDropped ==
    \A h \in Processed :
        (\E j \in DOMAIN tweets[h] : Malformed(tweets[h][j])) =>
            /\ h \notin Raised
            /\ result[h] # <<>>
            /\ result[h][1].Total_Tweets =
                  Cardinality({j \in DOMAIN tweets[h] : ~Malformed(tweets[h][j])})

\* The terms of an entity kind in the posts of an account, in the order the
\* posts and their annotations list them, lower-cased behind their sigil.
RECURSIVE Occurrences(_, _, _)
Occurrences(posts, sigil, key) ==
    IF posts = <<>> THEN <<>>
    ELSE LET t == posts[Len(posts)]
             names == IF t.entities # <<>> /\ key \in DOMAIN t.entities[1]
                      THEN t.entities[1][key] ELSE <<>>
         IN  Occurrences(SubSeq(posts, 1, Len(posts) - 1), sigil, key)
                \o [k \in DOMAIN names |-> <<sigil>> \o lower(names[k])]

\* The first n (term, count) pairs of the terms of occ, ordered by count
\* descending, terms of equal count by their first occurrence.  A term is
\* named by the index of its first occurrence.
TopTerms(occ, n) ==
    LET firsts == {k \in DOMAIN occ : \A m \in 1..(k - 1) : occ[m] # occ[k]}
        cnt == [k \in DOMAIN occ |-> Cardinality({m \in DOMAIN occ : occ[m] = occ[k]})]
                  \o <<>>
        Ahead(a, b) == cnt[a] > cnt[b] \/ (cnt[a] = cnt[b] /\ a < b)
        FirstAt(r) == CHOOSE k \in firsts : Cardinality({u \in firsts : Ahead(u, k)}) = r - 1
        size == IF Cardinality(firsts) < n THEN Cardinality(firsts) ELSE n
    IN  [r \in 1..size |-> [term |-> occ[FirstAt(r)], count |-> cnt[FirstAt(r)]]]

HashtagsOf(sm) == Occurrences(PostsOf(sm), "#", "hashtags")
MentionsOf(sm) == Occurrences(PostsOf(sm), "@", "mentions")

\* C11 as stated: every summary reports the first TopN (term, count) pairs
\* of the account's hashtags and, separately, of its mentions, both taken
\* from the entity annotations of all its posts and ordered by count
\* descending, ties by first occurrence.
C11_TopTermsBoth ==
    \A sm \in Emitted :
        /\ sm.Top_50_Hashtags = JoinPairs(TopTerms(HashtagsOf(sm), TopN), 1)
        /\ sm.Top_50_Mentions = <<JoinPairs(TopTerms(MentionsOf(sm), TopN), 1)>>

\* C11, amended: every summary reports the first TopN (term, count) pairs of
\* the account's hashtags, taken from the entity annotations of all its
\* posts and ordered by count descending, ties by first occurrence; the
\* journalists script reports the mentions the same way in a list of their
\* own, the news scripts report no mentions.
C11_TopTerms ==
    \A sm \in Emitted :
        /\ sm.Top_50_Hashtags = JoinPairs(TopTerms(HashtagsOf(sm), TopN), 1)
        /\ sm.Top_50_Mentions =
              IF script = "journalists"
              THEN <<JoinPairs(TopTerms(MentionsOf(sm), TopN), 1)>>
              ELSE <<>>

\* A journalists summary of an account whose two posts carry TopN + 1
\* hashtags between them, the 26th in both: the list opens with that
\* hashtag, counted twice, and holds TopN pairs: it ends with the 50th.
C11_Witness ==
    /\ script = "journalists"
    /\ \E sm \in Emitted :
          /\ Len(PostsOf(sm)) = 2
          /\ PostsOf(sm)[1].entities = <<[hashtags |-> ManyTags]>>
          /\ PostsOf(sm)[2].entities = <<[hashtags |-> MoreTags]>>
          /\ SubSeq(sm.Top_50_Hashtags, 1, 6) = <<"#", "t", "2", "6", ":", "2">>
          /\ SubSeq(sm.Top_50_Hashtags, Len(sm.Top_50_Hashtags) - 5, Len(sm.Top_50_Hashtags))
                = <<"#", "t", "5", "0", ":", "1">>

\* The posts of a sequence that carry a creation time.
Dated(posts) == {j \in DOMAIN posts : posts[j].created_at # <<>>}

\* C12: the window handed to the fetcher is the local day target_date: a
\* post's creation time lies in [start_time, end_time] exactly if its date
\* in Asia/Kolkata is target_date; so every post a summary counts has the
\* summary's Date as its local date, and when the fetch brought all the API
\* serves, every post of that date is among the posts counted.
C12_WindowIsLocalDay ==
    window # <<>> =>
        /\ \A h \in Handles : \A j \in Dated(timeline[h]) :
              (/\ window[1].start_time <= timeline[h][j].created_at[1]
               /\ timeline[h][j].created_at[1] <= window[1].end_time)
                 <=> LocalDate(timeline[h][j].created_at[1]) = window[1].target_date
        /\ \A sm \in Emitted :
              /\ sm.Date = LocalDate(now)
              /\ \A j \in Dated(PostsOf(sm)) :
                    LocalDate(PostsOf(sm)[j].created_at[1]) = sm.Date
              /\ PostsOf(sm) = Served(sm.Handle) =>
                    \A j \in Dated(timeline[sm.Handle]) :
                        LocalDate(timeline[sm.Handle][j].created_at[1]) = sm.Date
                            => timeline[sm.Handle][j] \in Range(PostsOf(sm))

\* The group of a handle, counted from 0, and the number of groups.
GroupOf(h) == (h - 1) \div batch_size
NumGroups == (Len(handles) + batch_size - 1) \div batch_size

\* The pipelines that have started, those that have ended (returned or
\* raised), and those in flight.
Started == {h \in Handles : st[h] # "idle"}
Finished == {h \in Handles : st[h] \in {"returned", "raised", "collected", "reported"}}
InFlight == Started \ Finished

\* C13: in run_in_batches, a pipeline has started only if every pipeline of
\* the groups before its own has ended and the cooldown before its group is
\* over; at most batch_size pipelines are in flight; the run never sleeps
\* as often as it has groups, and when it has finished it has slept once
\* less than it had groups.
C13_BatchesAndCooldowns ==
    script # "cleaned" =>
        /\ \A h \in Started :
              /\ \A k \in Handles : GroupOf(k) < GroupOf(h) => k \in Finished
              /\ sleeps = GroupOf(h) \/ (sleeps > GroupOf(h) /\ h \in Finished)
        /\ Cardinality(InFlight) <= batch_size
        /\ sleeps <= NumGroups - 1
        /\ pc \in {"export", "done"} => sleeps = NumGroups - 1

\* A finished run of run_in_batches over two groups, the first with two
\* pipelines of which one raised: it slept once.
C13_Witness ==
    /\ script = "journalists"
    /\ pc = "done"
    /\ NumGroups >= 2
    /\ sleeps = NumGroups - 1
    /\ \E h, k \in Handles :
          /\ h # k /\ GroupOf(h) = 0 /\ GroupOf(k) = 0
          /\ st[h] = "reported" /\ st[k] = "collected"

\* The counters after the party loop has run for one post, and the number of
\* increments in them, over the counters of all parties.
PartyCounts(s, raw) == PartyLoop(s, Normalize(s, raw), 1, [key \in CountKeys |-> 0])

PartySum(counts) ==
    counts["TDP_Related"] + counts["YCP_Related"] + counts["YSRCP_Related"]
        + counts["JSP_Related"] + counts["BJP_Related"] + counts["INC_Related"]

\* A post the government-topic test matches.
GovtMatches(s, raw) ==
    \E k \in DOMAIN GovtKeywords(s) : Contains(GovtKeywords(s)[k], Normalize(s, raw))

\* C14: the party loop increments at most one party counter for a post, and
\* INC only if the keywords of no other party match the post; so the five
\* party counts of a summary add up to at most its total; the government
\* count is the number of posts the government-topic test matches, whatever
\* their party.
C14_OnePartyPerPost ==
    \A sm \in Emitted :
        /\ \A j \in DOMAIN PostsOf(sm) :
              \E counts \in {PartyCounts(script, PostsOf(sm)[j].text)} :
                  /\ PartySum(counts) <= 1
                  /\ counts["INC_Related"] > 0 =>
                        \A k \in DOMAIN PartyKeywords(script) :
                            upper(PartyKeywords(script)[k].party) # "INC" =>
                                ~AnyKeyword(script, PartyKeywords(script)[k].keywords,
                                            Normalize(script, PostsOf(sm)[j].text))
        /\ sm.TDP_Tweets + sm.YSRCP_Tweets + sm.JSP_Tweets + sm.BJP_Tweets + sm.INC_Tweets
              <= sm.Total_Tweets
        /\ sm.Govt_Related_Tweets =
              Cardinality({j \in DOMAIN PostsOf(sm) : GovtMatches(script, PostsOf(sm)[j].text)})

\* A summary of two posts: one names two parties and is counted for the
\* first of them only, the other names a party and a government topic and
\* is counted for both.
C14_Witness ==
    \E sm \in Emitted :
        /\ Len(PostsOf(sm)) = 2
        /\ PostsOf(sm)[1].text = TxtJaganTdp
        /\ PostsOf(sm)[2].text = TxtJaganLiquor
        /\ sm.Total_Tweets = 2
        /\ sm.TDP_Tweets = 1
        /\ sm.Govt_Related_Tweets = 1
        /\ PartySum(PartyCounts(script, TxtJaganTdp)) = 1
        /\ PartySum(PartyCounts(script, TxtJaganLiquor)) = 1
====
